---- MODULE Spec2Model ----
(***************************************************************************)
(* Enrollment / capacity / waitlist / check-in core of                     *)
(* codigo_sqlite_colab.py, modelled over the SQLite tables eventos,        *)
(* inscricoes, lista_espera and avaliacoes.                                *)
(*                                                                         *)
(* Spec     : calls run one at a time; every handler is one action.        *)
(* SpecConc : two connections interleave the statements of                 *)
(*            inscrever_participante (SELECT, INSERT, UPDATE, commit).     *)
(* SpecEspera : two connections interleave the statements of               *)
(*            adicionar_lista_espera (SELECT, INSERT, commit).             *)
(***************************************************************************)
EXTENDS Integers, Sequences, FiniteSets, TLC

\* ---- bounds of the model ------------------------------------------------
NumParticipantes == 2
MaxEventos == 2
MaxCapacidade == 2
NumCodigos == 2
\* rows the model lets lista_espera hold
MaxEspera == 2
\* CHECK(nota >= 1 AND nota <= 5) of avaliacoes
NotaMin == 1
NotaMax == 5

Participantes == 1..NumParticipantes
EventoIds == 1..MaxEventos
\* capacidade_maxima as the data model declares it (a positive integer)
Capacidades == 1..MaxCapacidade
\* values gerar_codigo_confirmacao can return (random, so repeats can happen)
Codigos == 1..NumCodigos
\* the connections that can be open at the same time
Procs == {1, 2}
\* grades passed to avaliar_evento: one the CHECK refuses, one it accepts
Notas == {NotaMin - 1, NotaMax}

VARIABLES
    eventos,        \* table eventos: row id -> capacidade_maxima, vagas_disponiveis
    inscricoes,     \* table inscricoes: row id -> participante, evento, status, codigo, ...
    lista_espera,   \* table lista_espera: row id -> participante, evento, posicao
    avaliacoes,     \* table avaliacoes: row id -> participante, evento, nota
    ret,            \* the last completed call and what it returned / printed
    conn,           \* per connection: position inside inscrever_participante and its locals
    escritor,       \* connection holding the SQLite write lock (0: none)
    pendente        \* uncommitted working copy of the tables owned by escritor

db == <<eventos, inscricoes, lista_espera, avaliacoes>>
conc == <<conn, escritor, pendente>>
vars == <<eventos, inscricoes, lista_espera, avaliacoes, ret, conn, escritor, pendente>>

\* ---- schema (criar_tabelas) ---------------------------------------------
\* a new row of inscricoes with the column defaults of the schema
NovaInscricao(p, e, c) ==
    [participante_id |-> p, evento_id |-> e, status |-> "confirmada",
     codigo_confirmacao |-> c, presente |-> 0, data_checkin |-> "NULL"]

\* a new row of lista_espera with the column defaults of the schema
NovaEspera(p, e, pos) ==
    [participante_id |-> p, evento_id |-> e, posicao |-> pos, notificado |-> 0]

\* mutant: the pair constraint only counts rows that are not cancelled
ViolaUniqueInscricao_ignoraCancelada(insc, p, e, c) ==
    \E k \in DOMAIN insc :
        \/ /\ insc[k].participante_id = p
           /\ insc[k].evento_id = e
           /\ insc[k].status # "cancelada"
        \/ insc[k].codigo_confirmacao = c

\* mutant: codigo_confirmacao is not declared UNIQUE
ViolaUniqueInscricao_semCodigo(insc, p, e, c) ==
    \E k \in DOMAIN insc : insc[k].participante_id = p /\ insc[k].evento_id = e

\* mutant: UNIQUE(participante_id, evento_id) is not declared
ViolaUniqueInscricao_semPar(insc, p, e, c) ==
    \E k \in DOMAIN insc : insc[k].codigo_confirmacao = c

\* UNIQUE(participante_id, evento_id) and codigo_confirmacao UNIQUE of inscricoes:
\* TRUE when inserting (p, e, c) raises sqlite3.IntegrityError
ViolaUniqueInscricao(insc, p, e, c) ==
    \E k \in DOMAIN insc :
        \/ insc[k].participante_id = p /\ insc[k].evento_id = e
        \/ insc[k].codigo_confirmacao = c

\* a new row of avaliacoes (comentario is free text and is left out)
NovaAvaliacao(p, e, nota) ==
    [participante_id |-> p, evento_id |-> e, nota |-> nota]

\* UNIQUE(participante_id, evento_id) and CHECK(nota >= 1 AND nota <= 5) of
\* avaliacoes: TRUE when inserting (p, e, nota) raises sqlite3.IntegrityError
ViolaAvaliacao(av, p, e, nota) ==
    \/ \E k \in DOMAIN av : av[k].participante_id = p /\ av[k].evento_id = e
    \/ nota < NotaMin
    \/ nota > NotaMax

\* UNIQUE(participante_id, evento_id) of lista_espera
ViolaUniqueEspera(le, p, e) ==
    \E k \in DOMAIN le : le[k].participante_id = p /\ le[k].evento_id = e

\* ---- helpers --------------------------------------------------------------
ExisteEvento(evs, e) == e \in DOMAIN evs

Retorno(op, args, val, id, msg) ==
    [op |-> op, args |-> args, val |-> val, id |-> id, msg |-> msg]

\* mutant: the test lets a call through when no slot is left
SemVagas_menor(v) == v < 0

\* `if vagas_disponiveis <= 0` of inscrever_participante
SemVagas(v) == v <= 0

\* mutant: the slot is taken twice
UPDATE_ocupar_vaga_dupla(evs, e) ==
    [evs EXCEPT ![e].vagas_disponiveis = @ - 2]

\* UPDATE eventos SET vagas_disponiveis = vagas_disponiveis - 1 WHERE id = ?
UPDATE_ocupar_vaga(evs, e) ==
    [evs EXCEPT ![e].vagas_disponiveis = @ - 1]

\* mutant: the release is written with the sign of the reservation
UPDATE_liberar_vaga_menos(evs, e) ==
    [k \in DOMAIN evs |->
        IF k = e THEN [evs[k] EXCEPT !.vagas_disponiveis = @ - 1] ELSE evs[k]]

\* UPDATE eventos SET vagas_disponiveis = vagas_disponiveis + 1 WHERE id = ?
\* (an id that matches no row updates nothing)
UPDATE_liberar_vaga(evs, e) ==
    [k \in DOMAIN evs |->
        IF k = e THEN [evs[k] EXCEPT !.vagas_disponiveis = @ + 1] ELSE evs[k]]

\* mutant: the WHERE clause forgets participante_id
LinhasCancelar_semParticipante(insc, p, e) ==
    {k \in DOMAIN insc : insc[k].evento_id = e /\ insc[k].status = "confirmada"}

\* mutant: the WHERE clause forgets status = 'confirmada'
LinhasCancelar_semStatus(insc, p, e) ==
    {k \in DOMAIN insc : insc[k].participante_id = p /\ insc[k].evento_id = e}

\* mutant: the WHERE clause only excludes rows already cancelled
LinhasCancelar_naoCancelada(insc, p, e) ==
    {k \in DOMAIN insc :
        /\ insc[k].participante_id = p
        /\ insc[k].evento_id = e
        /\ insc[k].status # "cancelada"}

\* WHERE participante_id = ? AND evento_id = ? AND status = 'confirmada'
LinhasCancelar(insc, p, e) ==
    {k \in DOMAIN insc :
        /\ insc[k].participante_id = p
        /\ insc[k].evento_id = e
        /\ insc[k].status = "confirmada"}

\* mutant: the WHERE clause forgets status = 'confirmada'
LinhasCheckin_semStatus(insc, c) ==
    {k \in DOMAIN insc : insc[k].codigo_confirmacao = c}

\* mutant: the WHERE clause only excludes rows already checked in
LinhasCheckin_naoPresente(insc, c) ==
    {k \in DOMAIN insc :
        insc[k].codigo_confirmacao = c /\ insc[k].status # "presente"}

\* WHERE codigo_confirmacao = ? AND status = 'confirmada'
LinhasCheckin(insc, c) ==
    {k \in DOMAIN insc :
        insc[k].codigo_confirmacao = c /\ insc[k].status = "confirmada"}

Max(S) == CHOOSE x \in S : \A y \in S : y <= x

\* mutant: the SELECT forgets WHERE evento_id = ?
ProximaPosicao_global(le, e) ==
    LET ps == {le[k].posicao : k \in DOMAIN le}
    IN  (IF ps = {} THEN 0 ELSE Max(ps)) + 1

\* SELECT COALESCE(MAX(posicao), 0) + 1 FROM lista_espera WHERE evento_id = ?
ProximaPosicao(le, e) ==
    LET ps == {le[k].posicao : k \in {j \in DOMAIN le : le[j].evento_id = e}}
    IN  (IF ps = {} THEN 0 ELSE Max(ps)) + 1

\* ---- initial state: the empty tables left by criar_tabelas ---------------
ConnIdle == [pc |-> "idle", p |-> 0, e |-> 0, c |-> 0, posicao |-> 0,
             val |-> "None", msg |-> "nenhuma_chamada"]
SemPendente == [eventos |-> <<>>, inscricoes |-> <<>>]

Init ==
    /\ eventos = <<>>
    /\ inscricoes = <<>>
    /\ lista_espera = <<>>
    /\ avaliacoes = <<>>
    /\ ret = Retorno("criar_tabelas", <<>>, "None", 0, "tabelas_criadas")
    /\ conn = [i \in Procs |-> ConnIdle]
    /\ escritor = 0
    /\ pendente = SemPendente

\* ---- handlers, one call at a time ----------------------------------------
criar_evento(cap) ==
    /\ escritor = 0
    /\ Len(eventos) < MaxEventos
    /\ eventos' = Append(eventos,
                    [capacidade_maxima |-> cap, vagas_disponiveis |-> cap])
    /\ ret' = Retorno("criar_evento", <<cap>>, "id", Len(eventos) + 1, "evento_criado")
    /\ UNCHANGED <<inscricoes, lista_espera, avaliacoes, conc>>

inscrever_participante(p, e, c) ==
    /\ escritor = 0
    /\ IF ~ExisteEvento(eventos, e)
       THEN /\ ret' = Retorno("inscrever_participante", <<p, e>>, "None", 0,
                              "evento_nao_encontrado")
            /\ UNCHANGED db
       ELSE IF SemVagas(eventos[e].vagas_disponiveis)
       THEN /\ ret' = Retorno("inscrever_participante", <<p, e>>, "lista_espera", 0,
                              "nao_ha_vagas")
            /\ UNCHANGED db
       ELSE IF ViolaUniqueInscricao(inscricoes, p, e, c)
       THEN /\ ret' = Retorno("inscrever_participante", <<p, e>>, "None", 0,
                              "ja_inscrito")
            /\ UNCHANGED db
       ELSE /\ inscricoes' = Append(inscricoes, NovaInscricao(p, e, c))
            /\ eventos' = UPDATE_ocupar_vaga(eventos, e)
            /\ ret' = Retorno("inscrever_participante", <<p, e>>, "inscricao_id",
                              Len(inscricoes) + 1, "inscricao_realizada")
            /\ UNCHANGED <<lista_espera, avaliacoes>>
    /\ UNCHANGED conc

adicionar_lista_espera(p, e) ==
    /\ escritor = 0
    /\ ViolaUniqueEspera(lista_espera, p, e) \/ Len(lista_espera) < MaxEspera
    /\ LET posicao == ProximaPosicao(lista_espera, e)
       IN  IF ViolaUniqueEspera(lista_espera, p, e)
           THEN /\ ret' = Retorno("adicionar_lista_espera", <<p, e>>, "False", 0,
                                  "ja_na_lista_espera")
                /\ UNCHANGED db
           ELSE /\ lista_espera' = Append(lista_espera, NovaEspera(p, e, posicao))
                /\ ret' = Retorno("adicionar_lista_espera", <<p, e>>, "True", posicao,
                                  "adicionado_lista_espera")
                /\ UNCHANGED <<eventos, inscricoes, avaliacoes>>
    /\ UNCHANGED conc

cancelar_inscricao(p, e) ==
    /\ escritor = 0
    /\ LET linhas == LinhasCancelar(inscricoes, p, e)
       IN  IF Cardinality(linhas) > 0
           THEN /\ inscricoes' = [k \in DOMAIN inscricoes |->
                                    IF k \in linhas
                                    THEN [inscricoes[k] EXCEPT !.status = "cancelada"]
                                    ELSE inscricoes[k]]
                /\ eventos' = UPDATE_liberar_vaga(eventos, e)
                /\ ret' = Retorno("cancelar_inscricao", <<p, e>>, "True", 0,
                                  "inscricao_cancelada")
                /\ UNCHANGED <<lista_espera, avaliacoes>>
           ELSE /\ ret' = Retorno("cancelar_inscricao", <<p, e>>, "False", 0,
                                  "nao_encontrada_ou_ja_cancelada")
                /\ UNCHANGED db
    /\ UNCHANGED conc

\* mutant: the SET clause forgets the flag presente
SET_checkin_semFlag(linha) ==
    [linha EXCEPT !.status = "presente", !.data_checkin = "CURRENT_TIMESTAMP"]

\* SET presente = 1, status = 'presente', data_checkin = CURRENT_TIMESTAMP
SET_checkin(linha) ==
    [linha EXCEPT !.presente = 1,
                  !.status = "presente",
                  !.data_checkin = "CURRENT_TIMESTAMP"]

\* what realizar_checkin returns and prints for code c (rowcount > 0 or not)
checkin_retorno(insc, c) ==
    IF Cardinality(LinhasCheckin(insc, c)) > 0
    THEN [val |-> "True", msg |-> "checkin_realizado"]
    ELSE [val |-> "False", msg |-> "codigo_invalido_ou_checkin_ja_realizado"]

realizar_checkin(c) ==
    /\ escritor = 0
    /\ LET linhas == LinhasCheckin(inscricoes, c)
           r == checkin_retorno(inscricoes, c)
       IN  /\ ret' = Retorno("realizar_checkin", <<c>>, r.val, 0, r.msg)
           /\ IF Cardinality(linhas) > 0
              THEN /\ inscricoes' = [k \in DOMAIN inscricoes |->
                                       IF k \in linhas
                                       THEN SET_checkin(inscricoes[k])
                                       ELSE inscricoes[k]]
                   /\ UNCHANGED <<eventos, lista_espera, avaliacoes>>
              ELSE UNCHANGED db
    /\ UNCHANGED conc

\* mutant: the test only asks whether an enrollment row exists
Participou_semPresenca(insc, p, e) ==
    {k \in DOMAIN insc : insc[k].participante_id = p /\ insc[k].evento_id = e} # {}

\* SELECT presente FROM inscricoes WHERE participante_id = ? AND evento_id = ?;
\* fetchone() gives the first row: `resultado and resultado[0]`
Participou(insc, p, e) ==
    LET ks == {k \in DOMAIN insc : insc[k].participante_id = p /\ insc[k].evento_id = e}
    IN  ks # {} /\ insc[CHOOSE k \in ks : \A j \in ks : k <= j].presente = 1

avaliar_evento(p, e, nota) ==
    /\ escritor = 0
    /\ IF ~Participou(inscricoes, p, e)
       THEN /\ ret' = Retorno("avaliar_evento", <<p, e, nota>>, "False", 0,
                              "precisa_ter_participado")
            /\ UNCHANGED db
       ELSE IF ViolaAvaliacao(avaliacoes, p, e, nota)
       THEN /\ ret' = Retorno("avaliar_evento", <<p, e, nota>>, "False", 0,
                              "ja_avaliou")
            /\ UNCHANGED db
       ELSE /\ avaliacoes' = Append(avaliacoes, NovaAvaliacao(p, e, nota))
            /\ ret' = Retorno("avaliar_evento", <<p, e, nota>>, "True", 0,
                              "avaliacao_registrada")
            /\ UNCHANGED <<eventos, inscricoes, lista_espera>>
    /\ UNCHANGED conc

Next ==
    \/ \E cap \in Capacidades : criar_evento(cap)
    \/ \E p \in Participantes, e \in EventoIds, c \in Codigos :
            inscrever_participante(p, e, c)
    \/ \E p \in Participantes, e \in EventoIds : adicionar_lista_espera(p, e)
    \/ \E p \in Participantes, e \in EventoIds : cancelar_inscricao(p, e)
    \/ \E c \in Codigos : realizar_checkin(c)
    \/ \E p \in Participantes, e \in EventoIds, nota \in Notas : avaliar_evento(p, e, nota)

Spec == Init /\ [][Next]_vars

\* ---- inscrever_participante statement by statement, on its own connection ----
\* Python's sqlite3 runs the SELECT in autocommit mode and opens the transaction
\* (BEGIN) before the INSERT; the INSERT takes SQLite's write lock, which the
\* connection keeps until its commit; other connections read the committed
\* tables meanwhile.
Retornar(i, val, msg) ==
    conn' = [conn EXCEPT ![i] = [ConnIdle EXCEPT !.val = val, !.msg = msg]]

\* SELECT vagas_disponiveis ... ; the two early returns
inscrever_select(i, p, e) ==
    /\ conn[i].pc = "idle"
    /\ IF ~ExisteEvento(eventos, e)
       THEN Retornar(i, "None", "evento_nao_encontrado")
       ELSE IF SemVagas(eventos[e].vagas_disponiveis)
       THEN Retornar(i, "lista_espera", "nao_ha_vagas")
       ELSE conn' = [conn EXCEPT ![i].pc = "insert", ![i].p = p, ![i].e = e]
    /\ UNCHANGED <<db, ret, escritor, pendente>>

\* codigo = gerar_codigo_confirmacao(); INSERT INTO inscricoes ...
inscrever_insert(i, c) ==
    /\ conn[i].pc = "insert"
    /\ escritor = 0
    /\ IF ViolaUniqueInscricao(inscricoes, conn[i].p, conn[i].e, c)
       THEN /\ Retornar(i, "None", "ja_inscrito")
            /\ UNCHANGED <<escritor, pendente>>
       ELSE /\ escritor' = i
            /\ pendente' = [eventos |-> eventos,
                            inscricoes |-> Append(inscricoes,
                                                  NovaInscricao(conn[i].p, conn[i].e, c))]
            /\ conn' = [conn EXCEPT ![i].pc = "update"]
    /\ UNCHANGED <<db, ret>>

\* the INSERT finds the write lock taken until the busy timeout ends:
\* sqlite3.OperationalError, which inscrever_participante does not catch
inscrever_locked(i) ==
    /\ conn[i].pc = "insert"
    /\ escritor \notin {0, i}
    /\ Retornar(i, "OperationalError", "database_is_locked")
    /\ UNCHANGED <<db, ret, escritor, pendente>>

\* UPDATE eventos SET vagas_disponiveis = vagas_disponiveis - 1 ...
inscrever_update(i) ==
    /\ conn[i].pc = "update"
    /\ escritor = i
    /\ pendente' = [pendente EXCEPT
                        !.eventos = UPDATE_ocupar_vaga(pendente.eventos, conn[i].e)]
    /\ conn' = [conn EXCEPT ![i].pc = "commit"]
    /\ UNCHANGED <<db, ret, escritor>>

\* conn.commit(); return inscricao_id
inscrever_commit(i) ==
    /\ conn[i].pc = "commit"
    /\ escritor = i
    /\ eventos' = pendente.eventos
    /\ inscricoes' = pendente.inscricoes
    /\ escritor' = 0
    /\ pendente' = SemPendente
    /\ Retornar(i, "inscricao_id", "inscricao_realizada")
    /\ UNCHANGED <<lista_espera, avaliacoes, ret>>

NextConc ==
    \/ \E cap \in Capacidades : criar_evento(cap)
    \/ \E i \in Procs, p \in Participantes, e \in EventoIds : inscrever_select(i, p, e)
    \/ \E i \in Procs, c \in Codigos : inscrever_insert(i, c)
    \/ \E i \in Procs : inscrever_locked(i)
    \/ \E i \in Procs : inscrever_update(i)
    \/ \E i \in Procs : inscrever_commit(i)

SpecConc == Init /\ [][NextConc]_vars

\* ---- adicionar_lista_espera statement by statement, on its own connection ----
\* SELECT COALESCE(MAX(posicao), 0) + 1 ...; posicao = cursor.fetchone()[0]
espera_select(i, p, e) ==
    /\ conn[i].pc = "idle"
    /\ Len(lista_espera) < MaxEspera
    /\ conn' = [conn EXCEPT ![i].pc = "espera_insert", ![i].p = p, ![i].e = e,
                            ![i].posicao = ProximaPosicao(lista_espera, e)]
    /\ UNCHANGED <<db, ret, escritor, pendente>>

\* INSERT INTO lista_espera ... with the position read before; the INSERT opens
\* the transaction and takes the write lock
espera_insert(i) ==
    /\ conn[i].pc = "espera_insert"
    /\ escritor = 0
    /\ IF ViolaUniqueEspera(lista_espera, conn[i].p, conn[i].e)
       THEN /\ Retornar(i, "False", "ja_na_lista_espera")
            /\ UNCHANGED escritor
       ELSE /\ escritor' = i
            /\ conn' = [conn EXCEPT ![i].pc = "espera_commit"]
    /\ UNCHANGED <<db, ret, pendente>>

\* the INSERT finds the write lock taken until the busy timeout ends:
\* sqlite3.OperationalError, which adicionar_lista_espera does not catch
espera_locked(i) ==
    /\ conn[i].pc = "espera_insert"
    /\ escritor \notin {0, i}
    /\ Retornar(i, "OperationalError", "database_is_locked")
    /\ UNCHANGED <<db, ret, escritor, pendente>>

\* conn.commit(); return True
espera_commit(i) ==
    /\ conn[i].pc = "espera_commit"
    /\ escritor = i
    /\ lista_espera' = Append(lista_espera,
                              NovaEspera(conn[i].p, conn[i].e, conn[i].posicao))
    /\ escritor' = 0
    /\ Retornar(i, "True", "adicionado_lista_espera")
    /\ UNCHANGED <<eventos, inscricoes, avaliacoes, ret, pendente>>

NextEspera ==
    \/ \E i \in Procs, p \in Participantes, e \in EventoIds : espera_select(i, p, e)
    \/ \E i \in Procs : espera_insert(i)
    \/ \E i \in Procs : espera_locked(i)
    \/ \E i \in Procs : espera_commit(i)

SpecEspera == Init /\ [][NextEspera]_vars

\* ---- cancelar_inscricao and realizar_checkin statement by statement --------
\* Both handlers start with an UPDATE: Python's sqlite3 opens the transaction
\* before it and the UPDATE takes the write lock, so its WHERE clause reads the
\* committed tables. A handler that returns without commit closes its
\* connection, which rolls back and frees the lock.

\* mutant: the UPDATE runs without the write lock
TrancaLivre_sempre(esc) == TRUE

\* the write lock is granted to an UPDATE only when no connection holds it
TrancaLivre(esc) == esc = 0

\* the call of connection i ends with val and msg; its arguments stay recorded
Terminar(i, val, msg) ==
    [conn EXCEPT ![i].pc = "idle", ![i].val = val, ![i].msg = msg]

\* UPDATE inscricoes SET status = 'cancelada' WHERE ...; else branch of
\* `if cursor.rowcount > 0`
cancelar_update(i, p, e) ==
    /\ conn[i].pc = "idle"
    /\ TrancaLivre(escritor)
    /\ LET linhas == LinhasCancelar(inscricoes, p, e)
           chamada == [conn EXCEPT ![i] = [ConnIdle EXCEPT !.p = p, !.e = e]]
       IN  IF Cardinality(linhas) > 0
           THEN /\ escritor' = i
                /\ pendente' = [eventos |-> eventos,
                                inscricoes |-> [k \in DOMAIN inscricoes |->
                                    IF k \in linhas
                                    THEN [inscricoes[k] EXCEPT !.status = "cancelada"]
                                    ELSE inscricoes[k]]]
                /\ conn' = [chamada EXCEPT ![i].pc = "cancelar_vaga"]
           ELSE /\ conn' = [chamada EXCEPT ![i].val = "False",
                                           ![i].msg = "nao_encontrada_ou_ja_cancelada"]
                /\ UNCHANGED <<escritor, pendente>>
    /\ UNCHANGED <<db, ret>>

\* the UPDATE finds the write lock taken until the busy timeout ends:
\* sqlite3.OperationalError, which cancelar_inscricao does not catch
cancelar_locked(i, p, e) ==
    /\ conn[i].pc = "idle"
    /\ ~TrancaLivre(escritor)
    /\ conn' = [conn EXCEPT ![i] = [ConnIdle EXCEPT !.p = p, !.e = e,
                                        !.val = "OperationalError",
                                        !.msg = "database_is_locked"]]
    /\ UNCHANGED <<db, ret, escritor, pendente>>

\* UPDATE eventos SET vagas_disponiveis = vagas_disponiveis + 1 WHERE id = ?
cancelar_vaga(i) ==
    /\ conn[i].pc = "cancelar_vaga"
    /\ pendente' = [pendente EXCEPT
                        !.eventos = UPDATE_liberar_vaga(pendente.eventos, conn[i].e)]
    /\ conn' = [conn EXCEPT ![i].pc = "cancelar_commit"]
    /\ UNCHANGED <<db, ret, escritor>>

\* conn.commit(); return True
cancelar_commit(i) ==
    /\ conn[i].pc = "cancelar_commit"
    /\ eventos' = pendente.eventos
    /\ inscricoes' = pendente.inscricoes
    /\ escritor' = 0
    /\ pendente' = SemPendente
    /\ conn' = Terminar(i, "True", "inscricao_cancelada")
    /\ UNCHANGED <<lista_espera, avaliacoes, ret>>

\* UPDATE inscricoes SET presente = 1, status = 'presente', ... WHERE ...; else
\* branch of `if cursor.rowcount > 0`
checkin_update(i, c) ==
    /\ conn[i].pc = "idle"
    /\ TrancaLivre(escritor)
    /\ LET linhas == LinhasCheckin(inscricoes, c)
           r == checkin_retorno(inscricoes, c)
           chamada == [conn EXCEPT ![i] = [ConnIdle EXCEPT !.c = c]]
       IN  IF Cardinality(linhas) > 0
           THEN /\ escritor' = i
                /\ pendente' = [eventos |-> eventos,
                                inscricoes |-> [k \in DOMAIN inscricoes |->
                                    IF k \in linhas
                                    THEN SET_checkin(inscricoes[k])
                                    ELSE inscricoes[k]]]
                /\ conn' = [chamada EXCEPT ![i].pc = "checkin_commit"]
           ELSE /\ conn' = [chamada EXCEPT ![i].val = r.val, ![i].msg = r.msg]
                /\ UNCHANGED <<escritor, pendente>>
    /\ UNCHANGED <<db, ret>>

\* the UPDATE finds the write lock taken until the busy timeout ends:
\* sqlite3.OperationalError, which realizar_checkin does not catch
checkin_locked(i, c) ==
    /\ conn[i].pc = "idle"
    /\ ~TrancaLivre(escritor)
    /\ conn' = [conn EXCEPT ![i] = [ConnIdle EXCEPT !.c = c,
                                        !.val = "OperationalError",
                                        !.msg = "database_is_locked"]]
    /\ UNCHANGED <<db, ret, escritor, pendente>>

\* conn.commit(); return True
checkin_commit(i) ==
    /\ conn[i].pc = "checkin_commit"
    /\ inscricoes' = pendente.inscricoes
    /\ escritor' = 0
    /\ pendente' = SemPendente
    /\ conn' = Terminar(i, "True", "checkin_realizado")
    /\ UNCHANGED <<eventos, lista_espera, avaliacoes, ret>>

\* events and enrollments are made by whole calls between the statements of
\* the racing connections
NextCorrida ==
    \/ \E cap \in Capacidades : criar_evento(cap)
    \/ \E p \in Participantes, e \in EventoIds, c \in Codigos :
          inscrever_participante(p, e, c)
    \/ \E i \in Procs, p \in Participantes, e \in EventoIds : cancelar_update(i, p, e)
    \/ \E i \in Procs, p \in Participantes, e \in EventoIds : cancelar_locked(i, p, e)
    \/ \E i \in Procs : cancelar_vaga(i)
    \/ \E i \in Procs : cancelar_commit(i)
    \/ \E i \in Procs, c \in Codigos : checkin_update(i, c)
    \/ \E i \in Procs, c \in Codigos : checkin_locked(i, c)
    \/ \E i \in Procs : checkin_commit(i)

SpecCorrida == Init /\ [][NextCorrida]_vars

\* ======================= properties ========================================
\* rows of event e that hold a slot
Ativas(insc, e) ==
    {k \in DOMAIN insc :
        insc[k].evento_id = e /\ insc[k].status \in {"confirmada", "presente"}}

confirmed_count(evs, e) == evs[e].capacidade_maxima - evs[e].vagas_disponiveis

LinhasPar(insc, p, e) ==
    {k \in DOMAIN insc : insc[k].participante_id = p /\ insc[k].evento_id = e}

LinhasCodigo(insc, c) == {k \in DOMAIN insc : insc[k].codigo_confirmacao = c}

Espera(le, e) == {k \in DOMAIN le : le[k].evento_id = e}

\* the step just taken is the call op(p, e)
Chamada2(op, p, e) == ret'.op = op /\ ret'.args = <<p, e>>

\* the step just taken is the call op(c)
Chamada1(op, c) == ret'.op = op /\ ret'.args = <<c>>

\* every event other than e keeps its row
OutrosEventosIguais(e) ==
    /\ DOMAIN eventos' = DOMAIN eventos
    /\ \A f \in DOMAIN eventos : f # e => eventos'[f] = eventos[f]

\* C1: with calls one at a time, every event has 0 <= confirmed_count <= capacity
\* and confirmed_count is the number of its 'confirmada' or 'presente' enrollments.
C1_LedgerMatchesEnrollments ==
    \A e \in DOMAIN eventos :
        /\ 0 <= confirmed_count(eventos, e)
        /\ confirmed_count(eventos, e) <= eventos[e].capacidade_maxima
        /\ confirmed_count(eventos, e) = Cardinality(Ativas(inscricoes, e))

\* a full event that also holds a cancelled enrollment: slots were taken,
\* released and taken again
C1_Witness ==
    \E e \in DOMAIN eventos :
        /\ eventos[e].vagas_disponiveis = 0
        /\ Cardinality(Ativas(inscricoes, e)) = eventos[e].capacidade_maxima
        /\ \E k \in DOMAIN inscricoes :
              inscricoes[k].evento_id = e /\ inscricoes[k].status = "cancelada"

\* C2: under interleaved enroll calls no event gets more enrollments than its
\* capacity (two calls racing for the last slot do not both succeed) and
\* vagas_disponiveis never becomes negative.
C2_NoOverbooking ==
    \A e \in DOMAIN eventos :
        /\ eventos[e].vagas_disponiveis >= 0
        /\ Cardinality(Ativas(inscricoes, e)) <= eventos[e].capacidade_maxima

\* C3: enroll(p, e) on an existing event with an open slot, p having no row
\* for e, creates exactly one 'confirmada' row with a code, takes exactly one
\* slot of e and changes nothing else.
C3_EnrollSucceeds ==
    [][\A p \in Participantes, e \in EventoIds :
        ( /\ Chamada2("inscrever_participante", p, e)
          /\ ExisteEvento(eventos, e)
          /\ eventos[e].vagas_disponiveis >= 1
          /\ LinhasPar(inscricoes, p, e) = {} )
        => /\ ret'.val = "inscricao_id"
           /\ Len(inscricoes') = Len(inscricoes) + 1
           /\ SubSeq(inscricoes', 1, Len(inscricoes)) = inscricoes
           /\ inscricoes'[Len(inscricoes')].participante_id = p
           /\ inscricoes'[Len(inscricoes')].evento_id = e
           /\ inscricoes'[Len(inscricoes')].status = "confirmada"
           /\ inscricoes'[Len(inscricoes')].codigo_confirmacao \in Codigos
           /\ eventos'[e].vagas_disponiveis = eventos[e].vagas_disponiveis - 1
           /\ OutrosEventosIguais(e)
           /\ lista_espera' = lista_espera]_vars

\* C4: enroll into a full event returns 'lista_espera' and changes no table
\* (no enrollment, no waitlist entry, same slot count).
C4_FullEventSignalsWaitlist ==
    [][\A p \in Participantes, e \in EventoIds :
        ( /\ Chamada2("inscrever_participante", p, e)
          /\ ExisteEvento(eventos, e)
          /\ eventos[e].vagas_disponiveis = 0 )
        => /\ ret'.val = "lista_espera"
           /\ UNCHANGED db]_vars

\* an enroll call has just been turned away from a full event
C4_Witness ==
    /\ ret.op = "inscrever_participante"
    /\ ret.val = "lista_espera"
    /\ ExisteEvento(eventos, ret.args[2])
    /\ eventos[ret.args[2]].vagas_disponiveis = 0
    /\ Ativas(inscricoes, ret.args[2]) # {}

\* C5: enroll(p, e) while p holds a non-cancelled enrollment for e fails as
\* already enrolled, also when the event is full, and changes no table.
C5_SecondEnrollIsConflict ==
    [][\A p \in Participantes, e \in EventoIds :
        ( /\ Chamada2("inscrever_participante", p, e)
          /\ \E k \in LinhasPar(inscricoes, p, e) : inscricoes[k].status # "cancelada" )
        => /\ ret'.val = "None"
           /\ ret'.msg = "ja_inscrito"
           /\ UNCHANGED db]_vars

\* the waitlist entry of event e with the lowest position
PrimeiroEspera(le, e) ==
    CHOOSE k \in Espera(le, e) : \A j \in Espera(le, e) : le[k].posicao <= le[j].posicao

\* the step just taken is a successful cancel of (p, e) while e has a waitlist
CancelouComEspera(p, e) ==
    /\ Chamada2("cancelar_inscricao", p, e)
    /\ ret'.val = "True"
    /\ Espera(lista_espera, e) # {}

C7_CancelReleasesOneSlot ==
    [][\A p \in Participantes, e \in EventoIds :
        \A k \in LinhasPar(inscricoes, p, e) :
            ( /\ Chamada2("cancelar_inscricao", p, e)
              /\ inscricoes[k].status = "confirmada" )
            => /\ ret'.val = "True"
               /\ DOMAIN inscricoes' = DOMAIN inscricoes
               /\ inscricoes'[k] = [inscricoes[k] EXCEPT !.status = "cancelada"]
               /\ \A j \in DOMAIN inscricoes : j # k => inscricoes'[j] = inscricoes[j]
               /\ ( Espera(lista_espera, e) = {}
                    => eventos'[e].vagas_disponiveis = eventos[e].vagas_disponiveis + 1 )
               /\ eventos'[e].capacidade_maxima = eventos[e].capacidade_maxima
               /\ OutrosEventosIguais(e)]_vars

\* a cancel has just succeeded on an event without waitlist while another
\* enrollment of the same event is still confirmed
C7_Witness ==
    /\ ret.op = "cancelar_inscricao"
    /\ ret.val = "True"
    /\ Espera(lista_espera, ret.args[2]) = {}
    /\ \E k \in LinhasPar(inscricoes, ret.args[1], ret.args[2]) :
          inscricoes[k].status = "cancelada"
    /\ \E k \in DOMAIN inscricoes :
          /\ inscricoes[k].evento_id = ret.args[2]
          /\ inscricoes[k].participante_id # ret.args[1]
          /\ inscricoes[k].status = "confirmada"

\* C8: cancel(p, e) without a 'confirmada' row for the pair (no row, a
\* 'cancelada' row or a 'presente' row) returns False and changes no table; and
\* a row that is no longer 'confirmada' never changes again, so a cancel cannot
\* succeed or release a slot a second time.
C8_CancelFailsWithoutConfirmed ==
    [][/\ \A p \in Participantes, e \in EventoIds :
            ( /\ Chamada2("cancelar_inscricao", p, e)
              /\ \A k \in LinhasPar(inscricoes, p, e) : inscricoes[k].status # "confirmada" )
            => /\ ret'.val = "False"
               /\ UNCHANGED db
       /\ \A k \in DOMAIN inscricoes :
            inscricoes[k].status # "confirmada"
            => k \in DOMAIN inscricoes' /\ inscricoes'[k] = inscricoes[k]]_vars

\* a cancel has just failed on an enrollment that was cancelled before
C8_Witness ==
    /\ ret.op = "cancelar_inscricao"
    /\ ret.val = "False"
    /\ \E k \in LinhasPar(inscricoes, ret.args[1], ret.args[2]) :
          inscricoes[k].status = "cancelada"

\* C9: check-in with the code of a 'confirmada' enrollment returns True and
\* makes it 'presente'; a 'presente' enrollment never changes again; and a
\* check-in with the code of a 'presente' enrollment returns False and changes
\* no table.
C9_CheckinExactlyOnce ==
    [][/\ \A c \in Codigos : \A k \in LinhasCodigo(inscricoes, c) :
            ( Chamada1("realizar_checkin", c) /\ inscricoes[k].status = "confirmada" )
            => /\ ret'.val = "True"
               /\ inscricoes'[k].status = "presente"
               /\ inscricoes'[k].codigo_confirmacao = c
               /\ eventos' = eventos
       /\ \A k \in DOMAIN inscricoes :
            inscricoes[k].status = "presente"
            => k \in DOMAIN inscricoes' /\ inscricoes'[k] = inscricoes[k]
       /\ \A c \in Codigos : \A k \in LinhasCodigo(inscricoes, c) :
            ( Chamada1("realizar_checkin", c) /\ inscricoes[k].status = "presente" )
            => /\ ret'.val = "False"
               /\ UNCHANGED db]_vars

\* a second check-in with the code of an attended enrollment has just failed
C9_Witness ==
    /\ ret.op = "realizar_checkin"
    /\ ret.val = "False"
    /\ \E k \in LinhasCodigo(inscricoes, ret.args[1]) :
          inscricoes[k].status = "presente" /\ inscricoes[k].presente = 1

\* why a check-in with code c cannot succeed ("ok" when it can)
CasoCheckin(insc, c) ==
    IF LinhasCodigo(insc, c) = {} THEN "InvalidCode"
    ELSE IF \E k \in LinhasCodigo(insc, c) : insc[k].status = "presente"
    THEN "AlreadyCheckedIn"
    ELSE IF \E k \in LinhasCodigo(insc, c) : insc[k].status = "cancelada"
    THEN "NotConfirmed"
    ELSE "ok"

\* C10 as stated: two check-ins that fail for different reasons (no such code,
\* already attended, cancelled) give the caller different outcomes.
C10_FailuresDistinguishable ==
    \A c1, c2 \in Codigos :
        ( /\ CasoCheckin(inscricoes, c1) # "ok"
          /\ CasoCheckin(inscricoes, c2) # "ok"
          /\ CasoCheckin(inscricoes, c1) # CasoCheckin(inscricoes, c2) )
        => checkin_retorno(inscricoes, c1) # checkin_retorno(inscricoes, c2)

\* C10 as amended: a check-in that fails, for whichever of the three reasons,
\* returns the same False with the same message and changes no table.
C10_FailuresShareOneOutcome ==
    [][\A c \in Codigos :
        ( Chamada1("realizar_checkin", c) /\ CasoCheckin(inscricoes, c) # "ok" )
        => /\ ret'.val = "False"
           /\ ret'.msg = "codigo_invalido_ou_checkin_ja_realizado"
           /\ UNCHANGED db]_vars

\* a check-in with the code of a cancelled enrollment has just failed, while
\* another code is unknown and so fails for a different reason
C10_Witness ==
    /\ ret.op = "realizar_checkin"
    /\ ret.val = "False"
    /\ CasoCheckin(inscricoes, ret.args[1]) = "NotConfirmed"
    /\ \E c \in Codigos : CasoCheckin(inscricoes, c) = "InvalidCode"

\* C11: an enrollment is created 'confirmada' (by enroll only); the only status
\* changes are confirmada -> presente by check-in and confirmada -> cancelada by
\* cancel; a cancelled enrollment's code cannot check in and an attended
\* enrollment cannot be cancelled.
C11_EnrollmentLifecycle ==
    [][/\ \A k \in DOMAIN inscricoes :
            /\ k \in DOMAIN inscricoes'
            /\ \/ inscricoes'[k].status = inscricoes[k].status
               \/ /\ inscricoes[k].status = "confirmada"
                  /\ inscricoes'[k].status = "presente"
                  /\ Chamada1("realizar_checkin", inscricoes[k].codigo_confirmacao)
               \/ /\ inscricoes[k].status = "confirmada"
                  /\ inscricoes'[k].status = "cancelada"
                  /\ Chamada2("cancelar_inscricao", inscricoes[k].participante_id,
                              inscricoes[k].evento_id)
       /\ \A k \in DOMAIN inscricoes' :
            k \notin DOMAIN inscricoes
            => /\ inscricoes'[k].status = "confirmada"
               /\ ret'.op = "inscrever_participante"
       /\ \A k \in DOMAIN inscricoes :
            ( /\ inscricoes[k].status = "cancelada"
              /\ Chamada1("realizar_checkin", inscricoes[k].codigo_confirmacao) )
            => ret'.val = "False" /\ UNCHANGED db
       /\ \A k \in DOMAIN inscricoes :
            ( /\ inscricoes[k].status = "presente"
              /\ Chamada2("cancelar_inscricao", inscricoes[k].participante_id,
                          inscricoes[k].evento_id) )
            => ret'.val = "False" /\ UNCHANGED db]_vars

\* a cancel has just been refused for an attended enrollment, while another
\* enrollment is cancelled
C11_Witness ==
    /\ ret.op = "cancelar_inscricao"
    /\ ret.val = "False"
    /\ \E k \in LinhasPar(inscricoes, ret.args[1], ret.args[2]) :
          inscricoes[k].status = "presente"
    /\ \E k \in DOMAIN inscricoes : inscricoes[k].status = "cancelada"

\* no two rows of inscricoes have the same (participante_id, evento_id)
UmaLinhaPorPar(insc) ==
    \A k, j \in DOMAIN insc :
        ( /\ insc[k].participante_id = insc[j].participante_id
          /\ insc[k].evento_id = insc[j].evento_id ) => k = j

\* C12: there is at most one enrollment row per (participant, event), whatever
\* its status; an enroll for a pair whose row is cancelled fails, creates no row
\* and takes no slot, also when the event has open slots.
C12_OneRowPerPairForever ==
    [][/\ UmaLinhaPorPar(inscricoes')
       /\ \A p \in Participantes, e \in EventoIds :
            ( /\ Chamada2("inscrever_participante", p, e)
              /\ \E k \in LinhasPar(inscricoes, p, e) : inscricoes[k].status = "cancelada" )
            => /\ ret'.val # "inscricao_id"
               /\ UNCHANGED db]_vars

\* an enroll has just been refused for a cancelled pair although the event has
\* an open slot
C12_Witness ==
    /\ ret.op = "inscrever_participante"
    /\ ret.msg = "ja_inscrito"
    /\ \E k \in LinhasPar(inscricoes, ret.args[1], ret.args[2]) :
          inscricoes[k].status = "cancelada"
    /\ eventos[ret.args[2]].vagas_disponiveis > 0

\* C13: no two enrollments, whatever their event and status, carry the same
\* confirmation code, whichever codes gerar_codigo_confirmacao returns.
C13_CodesUnique ==
    \A k, j \in DOMAIN inscricoes :
        inscricoes[k].codigo_confirmacao = inscricoes[j].codigo_confirmacao => k = j

\* an enroll that generated the code of an existing enrollment has just been
\* refused; two enrollments exist and one of them is cancelled
C13_Witness ==
    /\ ret.op = "inscrever_participante"
    /\ ret.msg = "ja_inscrito"
    /\ LinhasPar(inscricoes, ret.args[1], ret.args[2]) = {}
    /\ Len(inscricoes) >= 2
    /\ \E k \in DOMAIN inscricoes : inscricoes[k].status = "cancelada"

\* positions of one event grow strictly with the insertion order
PosicoesCrescentes(le) ==
    \A k, j \in DOMAIN le :
        (le[k].evento_id = le[j].evento_id /\ k < j) => le[k].posicao < le[j].posicao

\* C14: with calls one at a time, a join for a pair without entry appends an
\* entry whose position is 1 for an event without entries and else the event's
\* maximum position + 1; a join for a pair with an entry fails and changes
\* nothing; so positions of one event are distinct and strictly increasing in
\* insertion order.
C14_JoinAssignsNextPosition ==
    [][/\ \A p \in Participantes, e \in EventoIds :
            ( /\ Chamada2("adicionar_lista_espera", p, e)
              /\ ~ViolaUniqueEspera(lista_espera, p, e) )
            => /\ ret'.val = "True"
               /\ Len(lista_espera') = Len(lista_espera) + 1
               /\ SubSeq(lista_espera', 1, Len(lista_espera)) = lista_espera
               /\ lista_espera'[Len(lista_espera')].participante_id = p
               /\ lista_espera'[Len(lista_espera')].evento_id = e
               /\ lista_espera'[Len(lista_espera')].posicao =
                    ( IF Espera(lista_espera, e) = {} THEN 1
                      ELSE Max({lista_espera[k].posicao : k \in Espera(lista_espera, e)}) + 1 )
               /\ UNCHANGED <<eventos, inscricoes>>
       /\ \A p \in Participantes, e \in EventoIds :
            ( /\ Chamada2("adicionar_lista_espera", p, e)
              /\ ViolaUniqueEspera(lista_espera, p, e) )
            => /\ ret'.val = "False"
               /\ UNCHANGED db
       /\ PosicoesCrescentes(lista_espera')]_vars

\* a repeated join has just been refused on an event whose waitlist holds
\* two entries
C14_Witness ==
    /\ ret.op = "adicionar_lista_espera"
    /\ ret.val = "False"
    /\ Cardinality(Espera(lista_espera, ret.args[2])) = 2

\* C15: under interleaved join calls no two waitlist entries of one event have
\* the same position.
C15_NoDuplicatePositions ==
    \A k, j \in DOMAIN lista_espera :
        ( /\ lista_espera[k].evento_id = lista_espera[j].evento_id
          /\ lista_espera[k].posicao = lista_espera[j].posicao ) => k = j

\* C16: under interleaved enroll calls there is at most one enrollment row per
\* (participant, event) and every row accounts for exactly one slot taken: the
\* call that loses the uniqueness check leaves no row and no decrement.
C16_SamePairRaceOneRow ==
    /\ UmaLinhaPorPar(inscricoes)
    /\ \A e \in DOMAIN eventos :
          eventos[e].capacidade_maxima - eventos[e].vagas_disponiveis
            = Cardinality({k \in DOMAIN inscricoes : inscricoes[k].evento_id = e})

\* the race: one call has committed the pair's enrollment and taken the last
\* slot while the other call for the same pair, which read an open slot before
\* that commit, is about to run its INSERT
C16_Witness ==
    \E i \in Procs :
        /\ conn[i].pc = "insert"
        /\ LinhasPar(inscricoes, conn[i].p, conn[i].e) # {}
        /\ eventos[conn[i].e].vagas_disponiveis = 0
        /\ \E j \in Procs : j # i /\ conn[j].msg = "inscricao_realizada"

\* a participant holding a slot of an event is not on that event's waitlist
SemEsperaDeInscrito(insc, le) ==
    \A k \in DOMAIN le : \A j \in LinhasPar(insc, le[k].participante_id, le[k].evento_id) :
        insc[j].status \notin {"confirmada", "presente"}

\* C17: a join for an event that still has open slots, or by a participant with
\* a non-cancelled enrollment for the event, creates no waitlist entry; so no
\* participant has both a waitlist entry and a 'confirmada' or 'presente'
\* enrollment for the same event.
C17_WaitlistOnlyWhenFull ==
    [][/\ \A p \in Participantes, e \in EventoIds :
            ( /\ Chamada2("adicionar_lista_espera", p, e)
              /\ \/ ExisteEvento(eventos, e) /\ eventos[e].vagas_disponiveis > 0
                 \/ \E k \in LinhasPar(inscricoes, p, e) : inscricoes[k].status # "cancelada" )
            => lista_espera' = lista_espera
       /\ SemEsperaDeInscrito(inscricoes', lista_espera')]_vars

\* C18: an enroll for an existing event with an open slot by a participant
\* without enrollment row for it never ends reporting "already enrolled", also
\* when the generated code is the code of an existing enrollment; codes stay
\* unique and the slot count matches the enrollments.
C18_CollisionIsRetryable ==
    [][\A p \in Participantes, e \in EventoIds :
        ( /\ Chamada2("inscrever_participante", p, e)
          /\ ExisteEvento(eventos, e)
          /\ eventos[e].vagas_disponiveis >= 1
          /\ LinhasPar(inscricoes, p, e) = {} )
        => /\ ret'.msg # "ja_inscrito"
           /\ \A k, j \in DOMAIN inscricoes' :
                inscricoes'[k].codigo_confirmacao = inscricoes'[j].codigo_confirmacao
                => k = j
           /\ confirmed_count(eventos', e) = Cardinality(Ativas(inscricoes', e))]_vars

\* C19: for every enrollment, presente is 1 exactly when status is 'presente',
\* and data_checkin is set exactly when status is 'presente'.
C19_FlagFollowsStatus ==
    \A k \in DOMAIN inscricoes :
        /\ inscricoes[k].presente = 1 <=> inscricoes[k].status = "presente"
        /\ inscricoes[k].data_checkin # "NULL" <=> inscricoes[k].status = "presente"

\* a check-in has just succeeded while another enrollment is cancelled
C19_Witness ==
    /\ ret.op = "realizar_checkin"
    /\ ret.val = "True"
    /\ \E k \in LinhasCodigo(inscricoes, ret.args[1]) :
          inscricoes[k].status = "presente" /\ inscricoes[k].presente = 1
    /\ \E k \in DOMAIN inscricoes : inscricoes[k].status = "cancelada"

\* every rating belongs to an attended enrollment, one rating per pair at most
AvaliacoesDePresentes(insc, av) ==
    /\ \A k \in DOMAIN av :
          \E j \in LinhasPar(insc, av[k].participante_id, av[k].evento_id) :
              insc[j].status = "presente"
    /\ \A k, j \in DOMAIN av :
          ( /\ av[k].participante_id = av[j].participante_id
            /\ av[k].evento_id = av[j].evento_id ) => k = j

\* C20: after every step each stored rating belongs to a pair whose enrollment
\* is 'presente' and no pair has two ratings; avaliar_evento returns False and
\* stores nothing for a pair without enrollment, with a 'confirmada' or
\* 'cancelada' enrollment, or with a rating already stored.
C20_RatingsOnlyFromAttendees ==
    [][/\ AvaliacoesDePresentes(inscricoes', avaliacoes')
       /\ \A p \in Participantes, e \in EventoIds, nota \in Notas :
            ( /\ ret'.op = "avaliar_evento"
              /\ ret'.args = <<p, e, nota>>
              /\ \/ \A k \in LinhasPar(inscricoes, p, e) : inscricoes[k].status # "presente"
                 \/ \E k \in DOMAIN avaliacoes :
                       /\ avaliacoes[k].participante_id = p
                       /\ avaliacoes[k].evento_id = e )
            => /\ ret'.val = "False"
               /\ UNCHANGED db]_vars

\* a second rating by an attendee has just been refused, and another
\* participant's enrollment is not attended
C20_Witness ==
    /\ ret.op = "avaliar_evento"
    /\ ret.val = "False"
    /\ ret.args[3] = NotaMax
    /\ \E k \in DOMAIN avaliacoes :
          /\ avaliacoes[k].participante_id = ret.args[1]
          /\ avaliacoes[k].evento_id = ret.args[2]
    /\ \E k \in DOMAIN inscricoes : inscricoes[k].status # "presente"

\* connection i's last call was a cancel that returned True
CancelouCom(i) == conn[i].pc = "idle" /\ conn[i].msg = "inscricao_cancelada"

\* connection i's last call was a check-in that returned True
CheckinCom(i) == conn[i].pc = "idle" /\ conn[i].msg = "checkin_realizado"

\* C21: in every interleaving of the statements of cancelar_inscricao and
\* realizar_checkin, a cancel that returned True left its enrollment
\* 'cancelada', a check-in that returned True left its enrollment 'presente',
\* no enrollment has both a successful cancel and a successful check-in, two
\* connections never both succeed in checking in the same code, and
\* confirmed_count equals the number of 'confirmada' or 'presente' enrollments
\* of every event (the slot is kept by the check-in, released once by the cancel).
C21_RaceHasOneWinner ==
    /\ \A e \in DOMAIN eventos :
          confirmed_count(eventos, e) = Cardinality(Ativas(inscricoes, e))
    /\ \A i \in Procs :
          CancelouCom(i) =>
             /\ LinhasPar(inscricoes, conn[i].p, conn[i].e) # {}
             /\ \A k \in LinhasPar(inscricoes, conn[i].p, conn[i].e) :
                   inscricoes[k].status = "cancelada"
    /\ \A i \in Procs :
          CheckinCom(i) =>
             /\ LinhasCodigo(inscricoes, conn[i].c) # {}
             /\ \A k \in LinhasCodigo(inscricoes, conn[i].c) :
                   inscricoes[k].status = "presente"
    /\ \A i, j \in Procs :
          (CancelouCom(i) /\ CheckinCom(j)) =>
             LinhasPar(inscricoes, conn[i].p, conn[i].e)
                \cap LinhasCodigo(inscricoes, conn[j].c) = {}
    /\ \A i, j \in Procs :
          (i # j /\ CheckinCom(i) /\ CheckinCom(j)) => conn[i].c # conn[j].c

\* one connection cancelled an enrollment and the other was refused the
\* check-in of that same enrollment
C21_Witness ==
    \E i, j \in Procs :
        /\ i # j
        /\ CancelouCom(i)
        /\ conn[j].pc = "idle"
        /\ conn[j].val \in {"False", "OperationalError"}
        /\ LinhasPar(inscricoes, conn[i].p, conn[i].e)
              \cap LinhasCodigo(inscricoes, conn[j].c) # {}

====
